---- MODULE Spec2Model ----
(***************************************************************************)
(* A model of rocksdb/_rocksdb.pyx: the Cython layer between Python        *)
(* callers and the RocksDB engine.  The module holds one specification per *)
(* concern of the layer:                                                   *)
(*   SpecStatus  - check_status, the translation of a Status to an error   *)
(*   SpecBridge  - the six callbacks the engine invokes (compare, filter,  *)
(*                 merge) and what happens to a fault raised inside them   *)
(*   SpecGil     - caller threads and engine background threads competing  *)
(*                 for the interpreter lock and the engine's locks         *)
(*   SpecHandle  - DB, Snapshot and iterator objects and their engine      *)
(*                 counterparts                                            *)
(*   SpecCache   - PyLRUCache objects shared by Options and DB objects     *)
(*   SpecLatch   - the comparator, merge_operator and filter_policy slots  *)
(*                 of an Options and the DB opened with it                 *)
(*   SpecCursor  - BaseIterator / ReversedIterator over one key space      *)
(*   SpecRead    - DB.get and DB.multi_get and the statuses of the engine  *)
(*   SpecWrite   - WriteBatch and DB.write                                 *)
(*   SpecSnap    - DB.snapshot and reads through a Snapshot                *)
(* Every specification leaves the variables of the others untouched.       *)
(***************************************************************************)
EXTENDS Integers, Sequences, FiniteSets

VARIABLES
    \* SpecStatus
    st,         \* the Status handed to check_status
    spc,        \* "call" before check_status ran, "done" after
    outcome,    \* what check_status did: [raised, msg]
    \* SpecBridge
    cb,         \* the callback invocation in progress (a record)
    \* SpecGil
    gil,        \* the thread holding the interpreter lock, or None
    elock,      \* the thread holding the engine's internal lock, or None
    tpc,        \* where each thread is
    \* SpecHandle
    hdb,        \* the DB object and its engine instance
    snaps,      \* the Snapshot objects taken from it
    iters,      \* the iterators (and reversed wrappers) opened on it
    \* SpecCache
    caches,     \* the PyLRUCache objects and their native caches
    copts,      \* the Options objects and their two cache slots
    chandles,   \* the DB objects opened with them
    \* SpecLatch
    lopts,      \* an Options: its comparator, merge_operator, filter_policy and
                \* block_cache slots
    lwrap,      \* the wrapper objects made for the values assigned to the slots
    ldb,        \* the DB opened with the Options, and what its engine latched
    lcall,      \* the last setter call or engine callback, and how it ended
    \* SpecCursor
    ckeys,      \* the keys the cursor's native iterator sees, in engine order
    ckind,      \* KeysIterator, ValuesIterator or ItemsIterator
    cpos,       \* the native iterator's position: 0 when not Valid()
    cmoved,     \* whether the cursor was ever positioned
    clast,      \* the last call on the cursor and what it gave back
    cout,       \* what the scan in progress has yielded so far
    cscan,      \* the scan in progress: the seek it began with, the view read
    \* SpecRead, SpecWrite, SpecSnap
    dstore,     \* what the engine holds under each key
    dbatch,     \* the entries of the WriteBatch the caller is filling
    dsnap,      \* the Snapshot the caller took, and the view it pins
    dlast       \* the last call on the DB and what it gave back

statusVars == <<st, spc, outcome>>
bridgeVars == <<cb>>
gilVars == <<gil, elock, tpc>>
handleVars == <<hdb, snaps, iters>>
cacheVars == <<caches, copts, chandles>>
latchVars == <<lopts, lwrap, ldb, lcall>>
cursorVars == <<ckeys, ckind, cpos, cmoved, clast, cout, cscan>>
dbVars == <<dstore, dbatch, dsnap, dlast>>
vars == <<st, spc, outcome, cb, gil, elock, tpc, hdb, snaps, iters,
          caches, copts, chandles, lopts, lwrap, ldb, lcall,
          ckeys, ckind, cpos, cmoved, clast, cout, cscan,
          dstore, dbatch, dsnap, dlast>>

\* What the actions of one specification leave alone.
notStatusVars ==
    <<bridgeVars, gilVars, handleVars, cacheVars, latchVars, cursorVars, dbVars>>
notBridgeVars ==
    <<statusVars, gilVars, handleVars, cacheVars, latchVars, cursorVars, dbVars>>
notGilVars ==
    <<statusVars, bridgeVars, handleVars, cacheVars, latchVars, cursorVars, dbVars>>
notHandleVars ==
    <<statusVars, bridgeVars, gilVars, cacheVars, latchVars, cursorVars, dbVars>>
notLatchVars ==
    <<statusVars, bridgeVars, gilVars, handleVars, cacheVars, cursorVars, dbVars>>
notCursorVars ==
    <<statusVars, bridgeVars, gilVars, handleVars, cacheVars, latchVars, dbVars>>
notCacheVars ==
    <<statusVars, bridgeVars, gilVars, handleVars, latchVars, cursorVars, dbVars>>
notDbVars ==
    <<statusVars, bridgeVars, gilVars, handleVars, cacheVars, latchVars, cursorVars>>

None == "None"

(***************************************************************************)
(* check_status (lines 38-63)                                              *)
(***************************************************************************)

\* The categories a Status can report, one per Is...() predicate that
\* check_status consults, in the order of its if-cascade.
Categories ==
    {"NotFound", "Corruption", "NotSupported", "InvalidArgument",
     "IOError", "MergeInProgress", "Incomplete"}

Details == {"d1", "d2"}

\* A Status as check_status sees it: ok(), the Is...() predicates that answer
\* true, and the text ToString() renders. The engine's Status holds one code,
\* so at most one predicate answers true; every combination is admitted here,
\* which includes those.
StatusSet == [ok : BOOLEAN, cats : SUBSET Categories, detail : Details]

\* st.ToString(): the engine's rendering of the status, which holds its detail.
ToString(s) == <<"ToString", s.detail>>

\* "<prefix>%s" % text
Format(prefix, text) == [prefix |-> prefix, text |-> text]

Raise(kind, msg) == [raised |-> kind, msg |-> msg]

Returned == [raised |-> None, msg |-> Format("", <<>>)]

\* A variant of check_status that tests IsCorruption before IsNotFound.
check_status_reordered(s) ==
    IF s.ok THEN Returned
    ELSE IF "Corruption" \in s.cats THEN Raise("Corruption", Format("", ToString(s)))
    ELSE IF "NotFound" \in s.cats THEN Raise("NotFound", Format("", ToString(s)))
    ELSE IF "NotSupported" \in s.cats THEN Raise("NotSupported", Format("", ToString(s)))
    ELSE IF "InvalidArgument" \in s.cats THEN Raise("InvalidArgument", Format("", ToString(s)))
    ELSE IF "IOError" \in s.cats THEN Raise("RocksIOError", Format("", ToString(s)))
    ELSE IF "MergeInProgress" \in s.cats THEN Raise("MergeInProgress", Format("", ToString(s)))
    ELSE IF "Incomplete" \in s.cats THEN Raise("Incomplete", Format("", ToString(s)))
    ELSE Raise("Exception", Format("Unknown error: ", ToString(s)))

check_status(s) ==
    IF s.ok THEN Returned
    ELSE IF "NotFound" \in s.cats THEN Raise("NotFound", Format("", ToString(s)))
    ELSE IF "Corruption" \in s.cats THEN Raise("Corruption", Format("", ToString(s)))
    ELSE IF "NotSupported" \in s.cats THEN Raise("NotSupported", Format("", ToString(s)))
    ELSE IF "InvalidArgument" \in s.cats THEN Raise("InvalidArgument", Format("", ToString(s)))
    ELSE IF "IOError" \in s.cats THEN Raise("RocksIOError", Format("", ToString(s)))
    ELSE IF "MergeInProgress" \in s.cats THEN Raise("MergeInProgress", Format("", ToString(s)))
    ELSE IF "Incomplete" \in s.cats THEN Raise("Incomplete", Format("", ToString(s)))
    ELSE Raise("Exception", Format("Unknown error: ", ToString(s)))

StatusIdle == [ok |-> TRUE, cats |-> {}, detail |-> "d1"]

\* A call site hands the Status of an engine call to check_status.
CheckStatus ==
    /\ spc = "call"
    /\ outcome' = check_status(st)
    /\ spc' = "done"
    /\ UNCHANGED <<st, notStatusVars>>

\* The next engine call produces another Status.
NextStatus ==
    /\ spc = "done"
    /\ st' \in StatusSet
    /\ spc' = "call"
    /\ outcome' = Returned
    /\ UNCHANGED notStatusVars

(***************************************************************************)
(* The callbacks of the bridges (lines 123-128, 170-185, 265-361)          *)
(***************************************************************************)

MergeCallbacks == {"merge_callback", "full_merge_callback", "partial_merge_callback"}

PlainCallbacks == {"compare_callback", "create_filter_callback", "key_may_match_callback"}

\* What a fault is an instance of: `except Exception` catches the first only
\* (KeyboardInterrupt, SystemExit and GeneratorExit derive from BaseException).
FaultKinds == {"Exception", "BaseException"}

\* The value a callback hands back when Cython abandons it: a cdef function
\* with a C return type and no except clause cannot raise, so the pending
\* exception is written to stderr ("... ignored") and the zero of the return
\* type is returned.
ZeroOf(name) ==
    IF name = "compare_callback" THEN "0"
    ELSE IF name = "create_filter_callback" THEN "void"
    ELSE "false"

BridgeIdle ==
    [name |-> None, pc |-> None, existing |-> None, fault |-> None, site |-> None,
     handler |-> None, ret |-> None, log |-> <<>>, stderr |-> <<>>, dst |-> None]

\* The engine calls a callback; existing_value is NULL or points to a value.
Invoke(name, existing) ==
    /\ cb.name = None
    /\ cb' = [BridgeIdle EXCEPT !.name = name, !.existing = existing, !.pc = "entry"]
    /\ UNCHANGED notBridgeVars

InvokeMerge ==
    \E name \in {"merge_callback", "full_merge_callback"}, e \in {"NULL", "value"} :
        Invoke(name, e)

InvokePartialMerge == Invoke("partial_merge_callback", None)

InvokePlain == \E name \in PlainCallbacks : Invoke(name, None)

\* merge_callback, full_merge_callback: py_existing_value is built before the
\* try statement (lines 273-276, 307-310); slice_to_str allocates and can raise.
\* partial_merge_callback has nothing before its try (line 341).
BeforeTry ==
    /\ cb.pc = "entry"
    /\ cb.name \in MergeCallbacks
    /\ \/ cb' = [cb EXCEPT !.pc = "try"]
       \/ /\ cb.existing = "value"
          /\ \E k \in FaultKinds :
                cb' = [cb EXCEPT !.pc = "unraisable", !.fault = k,
                                 !.site = "convert_existing"]
    /\ UNCHANGED notBridgeVars

\* Where the body of the try statement can raise: converting the arguments,
\* the caller's merge logic, and reading and converting its result.
TrySites == {"convert_args", "caller_logic", "convert_result"}

\* The except clause a fault of kind k raised in the try body reaches.
ExceptClause(k) == IF k = "Exception" THEN "except" ELSE "unraisable"

\* The try body (lines 278-289, 312-323, 341-352).
TryBody ==
    /\ cb.pc = "try"
    /\ \/ cb' = [cb EXCEPT !.pc = "returned", !.ret = "true", !.dst = "assigned"]
       \/ cb' = [cb EXCEPT !.pc = "returned", !.ret = "false"]
       \/ \E k \in FaultKinds, s \in TrySites :
             cb' = [cb EXCEPT !.pc = ExceptClause(k), !.fault = k, !.site = s]
    /\ UNCHANGED notBridgeVars

\* except Exception (lines 291-297, 325-331, 354-361): format the traceback,
\* write it to the engine's logger, return False. The handler itself runs
\* Python code and can raise.
ExceptHandler ==
    /\ cb.pc = "except"
    /\ \/ cb' = [cb EXCEPT !.pc = "returned", !.ret = "false", !.handler = "bridge",
                           !.log = Append(@, [text |-> "Error in " \o cb.name,
                                              traceback |-> TRUE])]
       \/ \E k \in FaultKinds :
             cb' = [cb EXCEPT !.pc = "unraisable", !.fault = k,
                              !.site = "except_handler"]
    /\ UNCHANGED notBridgeVars

\* compare_callback, create_filter_callback, key_may_match_callback
\* (lines 123-128, 170-185): the body, with no try statement around it.
PlainBody ==
    /\ cb.pc = "entry"
    /\ cb.name \in PlainCallbacks
    /\ \/ /\ cb.name = "compare_callback"
          /\ \E r \in {"negative", "0", "positive"} :
                cb' = [cb EXCEPT !.pc = "returned", !.ret = r]
       \/ /\ cb.name = "create_filter_callback"
          /\ cb' = [cb EXCEPT !.pc = "returned", !.ret = "void", !.dst = "appended"]
       \/ /\ cb.name = "key_may_match_callback"
          /\ \E r \in {"true", "false"} :
                cb' = [cb EXCEPT !.pc = "returned", !.ret = r]
       \/ \E k \in FaultKinds, s \in TrySites :
             cb' = [cb EXCEPT !.pc = "unraisable", !.fault = k, !.site = s]
    /\ UNCHANGED notBridgeVars

\* An exception no except clause of the callback took: Cython reports it on
\* stderr without a traceback and returns the zero of the return type.
Unraisable ==
    /\ cb.pc = "unraisable"
    /\ cb' = [cb EXCEPT !.pc = "returned", !.ret = ZeroOf(cb.name), !.handler = "cython",
                        !.stderr = Append(@, [text |-> "Exception ignored in " \o cb.name,
                                              traceback |-> FALSE])]
    /\ UNCHANGED notBridgeVars

\* Control is back in the engine.
Return ==
    /\ cb.pc = "returned"
    /\ cb' = BridgeIdle
    /\ UNCHANGED notBridgeVars

BridgeNext ==
    \/ InvokeMerge
    \/ InvokePartialMerge
    \/ InvokePlain
    \/ BeforeTry
    \/ TryBody
    \/ ExceptHandler
    \/ PlainBody
    \/ Unraisable
    \/ Return

(***************************************************************************)
(* Threads: the interpreter lock and the engine's locks                    *)
(* (DB.put/delete/merge/write/get and the iterators, lines 964-1088, and   *)
(* the `with gil` of every callback, lines 123-126, 265-271)               *)
(***************************************************************************)

CallerThreads == {"caller1", "caller2"}

BackgroundThreads == {"flush", "compaction"}

Threads == CallerThreads \cup BackgroundThreads

\* The methods of DB and of the iterators that call into the engine.
EngineCalls == {"put", "delete", "merge", "write", "get", "seek"}

\* Whether DB.<op> gives up the interpreter lock around its engine call: none
\* of them has a `with nogil` block, so the lock is held across
\* self.db.Put / Delete / Merge / Write / Get and self.ptr.Seek.
ReleasesGil(op) == FALSE

GilIdle == None
ElockIdle == None
TpcIdle == [t \in Threads |-> [at |-> IF t \in CallerThreads THEN "waiting" ELSE "idle",
                               op |-> None]]

\* A caller thread waiting for the interpreter lock gets it.
AcquireGil(t) ==
    /\ tpc[t].at = "waiting"
    /\ gil = None
    /\ gil' = t
    /\ tpc' = [tpc EXCEPT ![t].at = "python"]
    /\ UNCHANGED <<elock, notGilVars>>

\* Between two bytecodes the interpreter hands the lock to another thread.
YieldGil(t) ==
    /\ tpc[t].at = "python"
    /\ gil = t
    /\ gil' = None
    /\ tpc' = [tpc EXCEPT ![t].at = "waiting"]
    /\ UNCHANGED <<elock, notGilVars>>

\* DB.put and the like: the thread enters the engine call.
CallEngine(t, op) ==
    /\ tpc[t].at = "python"
    /\ gil = t
    /\ gil' = IF ReleasesGil(op) THEN None ELSE gil
    /\ tpc' = [tpc EXCEPT ![t] = [at |-> "engine_call", op |-> op]]
    /\ UNCHANGED <<elock, notGilVars>>

\* Inside the engine the call takes the engine's lock; it blocks while a
\* background thread holds it.
EngineEnter(t) ==
    /\ tpc[t].at = "engine_call"
    /\ elock = None
    /\ elock' = t
    /\ tpc' = [tpc EXCEPT ![t].at = "engine_work"]
    /\ UNCHANGED <<gil, notGilVars>>

\* The engine call is over: the lock of the engine is released and the call
\* returns to Python, which needs the interpreter lock again if it was given up.
EngineLeave(t) ==
    /\ tpc[t].at = "engine_work"
    /\ elock = t
    /\ elock' = None
    /\ tpc' = [tpc EXCEPT ![t] = [at |-> IF gil = t THEN "python" ELSE "waiting",
                                  op |-> None]]
    /\ UNCHANGED <<gil, notGilVars>>

\* A background thread of the engine (flush, compaction) starts work under the
\* engine's lock.
BgStart(b) ==
    /\ tpc[b].at = "idle"
    /\ elock = None
    /\ elock' = b
    /\ tpc' = [tpc EXCEPT ![b].at = "working"]
    /\ UNCHANGED <<gil, notGilVars>>

\* The background thread calls a callback of a bridge: `with gil` waits for the
\* interpreter lock.
BgInvokeCallback(b) ==
    /\ tpc[b].at = "working"
    /\ \E c \in {"compare_callback", "merge_callback", "key_may_match_callback"} :
          tpc' = [tpc EXCEPT ![b] = [at |-> "want_gil", op |-> c]]
    /\ UNCHANGED <<gil, elock, notGilVars>>

BgAcquireGil(b) ==
    /\ tpc[b].at = "want_gil"
    /\ gil = None
    /\ gil' = b
    /\ tpc' = [tpc EXCEPT ![b].at = "in_callback"]
    /\ UNCHANGED <<elock, notGilVars>>

\* The callback returns: the interpreter lock is released.
BgReturn(b) ==
    /\ tpc[b].at = "in_callback"
    /\ gil = b
    /\ gil' = None
    /\ tpc' = [tpc EXCEPT ![b] = [at |-> "working", op |-> None]]
    /\ UNCHANGED <<elock, notGilVars>>

BgFinish(b) ==
    /\ tpc[b].at = "working"
    /\ elock = b
    /\ elock' = None
    /\ tpc' = [tpc EXCEPT ![b].at = "idle"]
    /\ UNCHANGED <<gil, notGilVars>>

GilNext ==
    \/ \E t \in CallerThreads : AcquireGil(t)
    \/ \E t \in CallerThreads : YieldGil(t)
    \/ \E t \in CallerThreads, op \in EngineCalls : CallEngine(t, op)
    \/ \E t \in CallerThreads : EngineEnter(t)
    \/ \E t \in CallerThreads : EngineLeave(t)
    \/ \E b \in BackgroundThreads : BgStart(b)
    \/ \E b \in BackgroundThreads : BgInvokeCallback(b)
    \/ \E b \in BackgroundThreads : BgAcquireGil(b)
    \/ \E b \in BackgroundThreads : BgReturn(b)
    \/ \E b \in BackgroundThreads : BgFinish(b)

(***************************************************************************)
(* DB, Snapshot, BaseIterator, ReversedIterator: who keeps whom alive      *)
(* (lines 940-962, 1066-1091, 1153-1177, 1220-1225)                        *)
(***************************************************************************)

MaxSnapshots == 2

MaxIterators == 2

SnapshotIds == 1..MaxSnapshots

IteratorIds == 1..MaxIterators

\* A variant of Snapshot.__cinit__ that keeps db.db only, not the DB object.
SnapshotBorrowsDb == FALSE

\* Snapshot.__cinit__: self.db = db, a counted reference to the DB object.
SnapshotHoldsDb == TRUE

\* A variant of BaseIterator.__cinit__ that takes no reference to the DB object.
IteratorBorrowsDb == FALSE

\* BaseIterator.__cinit__: self.db = db, a counted reference to the DB object.
IteratorHoldsDb == TRUE

HdbIdle == [state |-> "unopened", callerRef |-> FALSE]

NoSnapshot == [state |-> "none", releases |-> 0, late |-> FALSE]

NoIterator ==
    [state |-> "none", callerRef |-> FALSE, rev |-> "none", snap |-> 0,
     lateDestroy |-> FALSE, lateUse |-> FALSE, snapGone |-> FALSE]

SnapsIdle == [i \in SnapshotIds |-> NoSnapshot]

ItersIdle == [j \in IteratorIds |-> NoIterator]

\* The number of references to the DB object: the caller's, one per living
\* Snapshot and one per living iterator.
DbRefCount(h, S, I) ==
    (IF h.callerRef THEN 1 ELSE 0)
    + (IF SnapshotHoldsDb THEN Cardinality({i \in SnapshotIds : S[i].state = "alive"}) ELSE 0)
    + (IF IteratorHoldsDb THEN Cardinality({j \in IteratorIds : I[j].state = "alive"}) ELSE 0)

\* DB.__dealloc__ (del self.db) runs when the last reference goes.
DbCollect(h, S, I) ==
    IF h.state = "open" /\ DbRefCount(h, S, I) = 0
    THEN [h EXCEPT !.state = "released"]
    ELSE h

\* Snapshot.__dealloc__: self.db.db.ReleaseSnapshot(self.ptr).
SnapshotDealloc(sn, h) ==
    [sn EXCEPT !.state = "dead", !.releases = @ + 1, !.late = (h.state = "released")]

\* BaseIterator.__dealloc__: del self.ptr.
IteratorDealloc(it, h) ==
    [it EXCEPT !.state = "dead", !.callerRef = FALSE,
               !.lateDestroy = (h.state = "released")]

\* An iterator lives while the caller or its reversed wrapper refers to it.
IteratorCollect(it, h) ==
    IF it.state = "alive" /\ ~it.callerRef /\ it.rev # "alive"
    THEN IteratorDealloc(it, h)
    ELSE it

\* DB(db_name, opts): the engine instance is opened.
OpenDb ==
    /\ hdb.state = "unopened"
    /\ hdb' = [state |-> "open", callerRef |-> TRUE]
    /\ UNCHANGED <<snaps, iters, notHandleVars>>

\* The caller drops its last reference to the DB object.
DropDb ==
    /\ hdb.callerRef
    /\ hdb' = DbCollect([hdb EXCEPT !.callerRef = FALSE], snaps, iters)
    /\ UNCHANGED <<snaps, iters, notHandleVars>>

\* DB.snapshot(): Snapshot(self).
TakeSnapshot(i) ==
    /\ hdb.callerRef /\ hdb.state = "open"
    /\ snaps[i].state = "none"
    /\ \A k \in SnapshotIds : k < i => snaps[k].state # "none"
    /\ snaps' = [snaps EXCEPT ![i] = [NoSnapshot EXCEPT !.state = "alive"]]
    /\ UNCHANGED <<hdb, iters, notHandleVars>>

\* The caller drops its reference to a Snapshot: __dealloc__ runs, then the
\* reference the Snapshot held on the DB object goes.
DropSnapshot(i) ==
    /\ snaps[i].state = "alive"
    /\ snaps' = [snaps EXCEPT ![i] = SnapshotDealloc(@, hdb)]
    /\ hdb' = DbCollect(hdb, snaps', iters)
    /\ iters' = iters
    /\ UNCHANGED notHandleVars

\* DB.iterkeys / itervalues / iteritems, with read option snapshot = none
\* (sn = 0) or a Snapshot the caller holds.
NewIterator(j, sn) ==
    /\ hdb.callerRef /\ hdb.state = "open"
    /\ iters[j].state = "none"
    /\ \A k \in IteratorIds : k < j => iters[k].state # "none"
    /\ sn # 0 => snaps[sn].state = "alive"
    /\ iters' = [iters EXCEPT ![j] =
                    [NoIterator EXCEPT !.state = "alive", !.callerRef = TRUE, !.snap = sn]]
    /\ UNCHANGED <<hdb, snaps, notHandleVars>>

\* reversed(it): ReversedIterator(self), which keeps a reference to it.
MakeReversed(j) ==
    /\ iters[j].state = "alive" /\ iters[j].callerRef
    /\ iters[j].rev = "none"
    /\ iters' = [iters EXCEPT ![j].rev = "alive"]
    /\ UNCHANGED <<hdb, snaps, notHandleVars>>

\* reversed(rev): ReversedIterator.__reversed__ returns self.it.
UnwrapReversed(j) ==
    /\ iters[j].rev = "alive"
    /\ ~iters[j].callerRef
    /\ iters' = [iters EXCEPT ![j].callerRef = TRUE]
    /\ UNCHANGED <<hdb, snaps, notHandleVars>>

\* The caller drops its reference to an iterator.
DropIterator(j) ==
    /\ iters[j].state = "alive" /\ iters[j].callerRef
    /\ iters' = [iters EXCEPT ![j] = IteratorCollect([@ EXCEPT !.callerRef = FALSE], hdb)]
    /\ hdb' = DbCollect(hdb, snaps, iters')
    /\ UNCHANGED <<snaps, notHandleVars>>

\* The caller drops its reference to a reversed wrapper.
DropReversed(j) ==
    /\ iters[j].rev = "alive"
    /\ iters' = [iters EXCEPT ![j] = IteratorCollect([@ EXCEPT !.rev = "dead"], hdb)]
    /\ hdb' = DbCollect(hdb, snaps, iters')
    /\ UNCHANGED <<snaps, notHandleVars>>

\* seek_to_first / seek_to_last / seek / next through either view: the native
\* iterator is used.
UseIterator(j) ==
    /\ iters[j].state = "alive"
    /\ iters[j].callerRef \/ iters[j].rev = "alive"
    /\ iters' = [iters EXCEPT ![j].lateUse = @ \/ hdb.state = "released",
                              ![j].snapGone = @ \/ (iters[j].snap # 0
                                    /\ snaps[iters[j].snap].state = "dead")]
    /\ UNCHANGED <<hdb, snaps, notHandleVars>>

HandleNext ==
    \/ OpenDb
    \/ DropDb
    \/ \E i \in SnapshotIds : TakeSnapshot(i)
    \/ \E i \in SnapshotIds : DropSnapshot(i)
    \/ \E j \in IteratorIds, sn \in {0} \cup SnapshotIds : NewIterator(j, sn)
    \/ \E j \in IteratorIds : MakeReversed(j)
    \/ \E j \in IteratorIds : UnwrapReversed(j)
    \/ \E j \in IteratorIds : DropIterator(j)
    \/ \E j \in IteratorIds : DropReversed(j)
    \/ \E j \in IteratorIds : UseIterator(j)

(***************************************************************************)
(* PyLRUCache and the block_cache / block_cache_compressed slots of        *)
(* Options (lines 365-395, 405-427, 867-900, 940-962)                      *)
(***************************************************************************)

MaxCaches == 1

MaxHandles == 1

CacheIds == 1..MaxCaches

\* Two Options objects, so that a cache can be shared between configurations.
OptionsIds == {1, 2}

HandleIds == 1..MaxHandles

CacheSlots == {"block_cache", "block_cache_compressed"}

EmptySlots == [sl \in CacheSlots |-> 0]

\* A PyLRUCache: the Python object, whether the caller holds it, and the
\* native cache behind its shared_ptr with the shared_ptr's use count.
NoCache == [obj |-> "none", callerRef |-> FALSE, useCount |-> 0, native |-> "none"]

\* An Options: py holds py_block_cache / py_block_cache_compressed, nat the
\* shared_ptr fields of the native options.Options.
NoOptions == [state |-> "none", callerRef |-> FALSE, py |-> EmptySlots, nat |-> EmptySlots]

\* A DB: the Options it keeps and the shared_ptrs of the engine's copy.
NoHandle == [state |-> "none", callerRef |-> FALSE, opts |-> 0, eng |-> EmptySlots]

CachesIdle == [c \in CacheIds |-> NoCache]

CoptsIdle == [o \in OptionsIds |-> NoOptions]

ChandlesIdle == [d \in HandleIds |-> NoHandle]

\* One more shared_ptr to the native cache c (c = 0: an empty shared_ptr).
Acquire(C, c) ==
    IF c = 0 THEN C ELSE [C EXCEPT ![c].useCount = @ + 1]

\* One shared_ptr to c goes; the last one destroys the native cache.
Release(C, c) ==
    IF c = 0 THEN C
    ELSE [C EXCEPT ![c].useCount = @ - 1,
                   ![c].native = IF C[c].useCount = 1 THEN "destroyed" ELSE @]

RECURSIVE ReleaseAll(_, _)
ReleaseAll(C, cs) ==
    IF cs = <<>> THEN C ELSE ReleaseAll(Release(C, Head(cs)), Tail(cs))

\* The shared_ptrs held by the slots of the members of set X of map M, as a
\* sequence (M[x][field] is a slot record).
RECURSIVE SlotsOf(_, _, _)
SlotsOf(M, X, field) ==
    IF X = {} THEN <<>>
    ELSE LET x == CHOOSE y \in X : TRUE
         IN  <<M[x][field]["block_cache"], M[x][field]["block_cache_compressed"]>>
             \o SlotsOf(M, X \ {x}, field)

RECURSIVE SeqOfSet(_)
SeqOfSet(X) ==
    IF X = {} THEN <<>>
    ELSE LET x == CHOOSE y \in X : TRUE IN <<x>> \o SeqOfSet(X \ {x})

\* What deallocation leaves, given the references of the caller: DB objects
\* nobody holds run __dealloc__ (del self.db: the engine's copy of the
\* options goes) and let go of their Options; Options objects nobody holds
\* run __dealloc__ (del self.opts) and let go of their caches; PyLRUCache
\* objects nobody holds give up their own shared_ptr.
Collect(C, O, H) ==
    LET deadH == {d \in HandleIds : H[d].state = "open" /\ ~H[d].callerRef}
        H1 == [d \in HandleIds |->
                 IF d \in deadH
                 THEN [H[d] EXCEPT !.state = "closed", !.opts = 0, !.eng = EmptySlots]
                 ELSE H[d]]
        C1 == ReleaseAll(C, SlotsOf(H, deadH, "eng"))
        deadO == {o \in OptionsIds :
                    /\ O[o].state = "alive" /\ ~O[o].callerRef
                    /\ ~\E d \in HandleIds : H1[d].state = "open" /\ H1[d].opts = o}
        O1 == [o \in OptionsIds |->
                 IF o \in deadO
                 THEN [O[o] EXCEPT !.state = "dead", !.py = EmptySlots, !.nat = EmptySlots]
                 ELSE O[o]]
        C2 == ReleaseAll(C1, SlotsOf(O, deadO, "nat"))
        deadC == {c \in CacheIds :
                    /\ C2[c].obj = "alive" /\ ~C2[c].callerRef
                    /\ ~\E o \in OptionsIds, sl \in CacheSlots :
                          O1[o].state = "alive" /\ O1[o].py[sl] = c}
        C3 == [c \in CacheIds |->
                 IF c \in deadC THEN [C2[c] EXCEPT !.obj = "dead"] ELSE C2[c]]
        C4 == ReleaseAll(C3, SeqOfSet(deadC))
    IN  [caches |-> C4, copts |-> O1, chandles |-> H1]

Collected(C, O, H) ==
    LET r == Collect(C, O, H)
    IN  /\ caches' = r.caches
        /\ copts' = r.copts
        /\ chandles' = r.chandles

\* LRUCache(capacity): cache.NewLRUCache makes the native cache, cache_ob is
\* the first shared_ptr to it.
NewCache(c) ==
    /\ caches[c].obj = "none"
    /\ \A k \in CacheIds : k < c => caches[k].obj # "none"
    /\ caches' = [caches EXCEPT ![c] =
                    [obj |-> "alive", callerRef |-> TRUE, useCount |-> 1, native |-> "live"]]
    /\ UNCHANGED <<copts, chandles, notCacheVars>>

\* The caller drops its reference to a cache object.
DropCache(c) ==
    /\ caches[c].callerRef
    /\ Collected([caches EXCEPT ![c].callerRef = FALSE], copts, chandles)
    /\ UNCHANGED notCacheVars

\* Options(): both cache slots are None.
NewOptions(o) ==
    /\ copts[o].state = "none"
    /\ \A k \in OptionsIds : k < o => copts[k].state # "none"
    /\ copts' = [copts EXCEPT ![o] = [NoOptions EXCEPT !.state = "alive", !.callerRef = TRUE]]
    /\ UNCHANGED <<caches, chandles, notCacheVars>>

\* The caller drops its reference to an Options object.
DropOptions(o) ==
    /\ copts[o].callerRef
    /\ Collected(caches, [copts EXCEPT ![o].callerRef = FALSE], chandles)
    /\ UNCHANGED notCacheVars

\* A variant of the setters that, given None, leaves the native field alone.
NativeSlotKept(c) == c

\* opts.block_cache = None: what self.opts.block_cache.reset() leaves in the
\* native field that held c.
NativeSlotAfterNone(c) == 0

\* opts.block_cache = c / opts.block_cache_compressed = c, for a cache object
\* the caller holds (lines 873-882, 890-900).
SetCache(o, sl, c) ==
    /\ copts[o].state = "alive" /\ copts[o].callerRef
    /\ caches[c].obj = "alive" /\ caches[c].callerRef
    /\ LET old == copts[o].nat[sl]
           O1 == [copts EXCEPT ![o].py[sl] = c, ![o].nat[sl] = c]
           C1 == Release(Acquire(caches, c), old)
       IN  Collected(C1, O1, chandles)
    /\ UNCHANGED notCacheVars

\* opts.block_cache = None / opts.block_cache_compressed = None.
SetCacheNone(o, sl) ==
    /\ copts[o].state = "alive" /\ copts[o].callerRef
    /\ LET old == copts[o].nat[sl]
           new == NativeSlotAfterNone(old)
           O1 == [copts EXCEPT ![o].py[sl] = 0, ![o].nat[sl] = new]
           C1 == IF new = old THEN caches ELSE Release(caches, old)
       IN  Collected(C1, O1, chandles)
    /\ UNCHANGED notCacheVars

\* opts.block_cache read back: the getter returns the cache object itself.
GetCache(o, sl) ==
    /\ copts[o].state = "alive" /\ copts[o].callerRef
    /\ copts[o].py[sl] # 0
    /\ ~caches[copts[o].py[sl]].callerRef
    /\ caches' = [caches EXCEPT ![copts[o].py[sl]].callerRef = TRUE]
    /\ UNCHANGED <<copts, chandles, notCacheVars>>

\* DB(db_name, opts): the engine copies deref(opts.opts), shared_ptrs
\* included, and the DB object keeps opts.
OpenHandle(d, o) ==
    /\ chandles[d].state = "none"
    /\ \A k \in HandleIds : k < d => chandles[k].state # "none"
    /\ copts[o].state = "alive" /\ copts[o].callerRef
    /\ chandles' = [chandles EXCEPT ![d] =
                      [state |-> "open", callerRef |-> TRUE, opts |-> o,
                       eng |-> copts[o].nat]]
    /\ caches' = Acquire(Acquire(caches, copts[o].nat["block_cache"]),
                         copts[o].nat["block_cache_compressed"])
    /\ UNCHANGED <<copts, notCacheVars>>

\* db.options: the Options object the DB keeps.
GetOptions(d) ==
    /\ chandles[d].state = "open" /\ chandles[d].callerRef
    /\ ~copts[chandles[d].opts].callerRef
    /\ copts' = [copts EXCEPT ![chandles[d].opts].callerRef = TRUE]
    /\ UNCHANGED <<caches, chandles, notCacheVars>>

\* The caller drops its reference to a DB object.
DropHandle(d) ==
    /\ chandles[d].callerRef
    /\ Collected(caches, copts, [chandles EXCEPT ![d].callerRef = FALSE])
    /\ UNCHANGED notCacheVars

CacheNext ==
    \/ \E c \in CacheIds : NewCache(c)
    \/ \E c \in CacheIds : DropCache(c)
    \/ \E o \in OptionsIds : NewOptions(o)
    \/ \E o \in OptionsIds : DropOptions(o)
    \/ \E o \in OptionsIds, sl \in CacheSlots, c \in CacheIds : SetCache(o, sl, c)
    \/ \E o \in OptionsIds, sl \in CacheSlots : SetCacheNone(o, sl)
    \/ \E o \in OptionsIds, sl \in CacheSlots : GetCache(o, sl)
    \/ \E d \in HandleIds, o \in OptionsIds : OpenHandle(d, o)
    \/ \E d \in HandleIds : GetOptions(d)
    \/ \E d \in HandleIds : DropHandle(d)

(***************************************************************************)
(* The comparator, merge_operator, filter_policy and block_cache slots of  *)
(* Options and what a DB opened with them keeps (lines 76-121, 144-223,    *)
(* 231-263, 374-393, 405-427, 826-882, 940-962)                            *)
(***************************************************************************)

MaxWrappers == 2

WrapperIds == 1..MaxWrappers

Slots == {"comparator", "merge_operator", "filter_policy", "block_cache"}

\* What a caller assigns to a slot: an object of its own implementing the
\* interface of the slot, a built-in (BytewiseComparator(), BloomFilterPolicy(n),
\* LRUCache(n)) or an object without the capability.
ValueKinds == {"generic", "bytewise", "bloom", "cache", "invalid"}

\* A wrapper object: PyGenericComparator / PyMergeOperator /
\* PyGenericFilterPolicy around a caller object (kind generic), or a built-in.
\* callerRef: the caller still holds the object it assigned. obAlive: the
\* caller object the native wrapper's void* ctx points to exists. ob: the
\* object get_ob() returns, named by the number of the assignment.
NoWrapper ==
    [kind |-> "none", slot |-> None, alive |-> FALSE, callerRef |-> FALSE,
     obAlive |-> FALSE, native |-> "none", ob |-> 0]

\* Options.__init__: py_comparator = BytewiseComparator() (written 0 here, its
\* native comparator is the engine's static one), the other slots None (0).
LoptsIdle == [py |-> [sl \in Slots |-> 0], nat |-> [sl \in Slots |-> 0]]

LwrapIdle == [w \in WrapperIds |-> NoWrapper]

LdbIdle == [state |-> "unopened", eng |-> [sl \in Slots |-> 0]]

LcallIdle == [op |-> None, slot |-> None, kind |-> None, result |-> None]

\* Whether a slot accepts a value of kind k: PyGenericComparator,
\* PyMergeOperator and PyGenericFilterPolicy test isinstance and raise
\* TypeError otherwise; the built-ins pass the PyComparator / PyFilterPolicy
\* test; block_cache takes a PyCache and raises TypeError otherwise.
Accepts(sl, k) ==
    \/ k = "generic" /\ sl # "block_cache"
    \/ k = "bytewise" /\ sl = "comparator"
    \/ k = "bloom" /\ sl = "filter_policy"
    \/ k = "cache" /\ sl = "block_cache"

\* The engine of the open DB holds a shared_ptr to the merge operator or the
\* cache of w.
EngineShares(w, D) ==
    D.state = "open" /\ (D.eng["merge_operator"] = w \/ D.eng["block_cache"] = w)

\* What becomes of the native object when its wrapper is deallocated:
\* PyGenericComparator, PyGenericFilterPolicy and PyBloomFilterPolicy delete
\* it (del self.comparator_ptr, del self.policy); PyMergeOperator and
\* PyLRUCache drop one shared_ptr; PyBytewiseComparator has no __dealloc__.
NativeAfterDealloc(wr, shared) ==
    IF wr.kind = "bytewise" THEN wr.native
    ELSE IF wr.slot \in {"merge_operator", "block_cache"} /\ shared THEN wr.native
    ELSE "deleted"

\* The wrappers after references were dropped: a generic wrapper lives while
\* it is in a slot, a built-in while it is in a slot or the caller holds it;
\* a caller object lives while the caller or a living wrapper holds it.
LatchCollect(W, O, D) ==
    [w \in WrapperIds |->
        LET wr == W[w]
            inSlot == \E sl \in Slots : O.py[sl] = w
            stays == inSlot \/ (wr.kind \in {"bytewise", "bloom", "cache"} /\ wr.callerRef)
        IN  IF wr.kind = "none" \/ ~wr.alive THEN wr
            ELSE IF stays THEN wr
            ELSE [wr EXCEPT !.alive = FALSE,
                            !.obAlive = (wr.kind = "generic" /\ wr.callerRef),
                            !.native = NativeAfterDealloc(wr, EngineShares(w, D))]]

\* The getters of the slots: py_<slot>.get_ob(), or None (0) for a slot that
\* holds None; 0 for the comparator is the BytewiseComparator() of __init__.
Getter(O, W, sl) == IF O.py[sl] = 0 THEN 0 ELSE W[O.py[sl]].ob

\* A variant of the setters without their last line.
NativeNotSet(sl, w) == lopts.nat[sl]

\* The last line of a setter: `self.opts.comparator =
\* self.py_comparator.get_comparator()` and its likes make the native options
\* point to the native object of the wrapper just stored.
NativeAfterSet(sl, w) == w

\* opts.<slot> = value, for a value the slot accepts: a new wrapper is made
\* (for a built-in, the value is the wrapper), both the py_ field and the field
\* of the native options are set, and the wrapper that was in the slot loses
\* its reference. keep: the caller keeps a reference to the value.
SetSlot(sl, k, keep, w) ==
    /\ Accepts(sl, k)
    /\ lwrap[w].kind = "none"
    /\ \A v \in WrapperIds : v < w => lwrap[v].kind # "none"
    /\ LET W1 == [lwrap EXCEPT ![w] =
                    [kind |-> k, slot |-> sl, alive |-> TRUE, callerRef |-> keep,
                     obAlive |-> (k = "generic"),
                     native |-> IF k = "bytewise" THEN "static" ELSE "live",
                     ob |-> w]]
           O1 == [lopts EXCEPT !.py[sl] = w, !.nat[sl] = NativeAfterSet(sl, w)]
       IN  /\ lopts' = O1
           /\ lwrap' = LatchCollect(W1, O1, ldb)
    /\ lcall' = [op |-> "set", slot |-> sl, kind |-> k, result |-> "accepted"]
    /\ UNCHANGED <<ldb, notLatchVars>>

\* opts.block_cache = None: `self.py_block_cache = None;
\* self.opts.block_cache.reset()`.
SetSlotNone(sl) ==
    /\ sl = "block_cache"
    /\ LET O1 == [lopts EXCEPT !.py[sl] = 0, !.nat[sl] = 0]
       IN  /\ lopts' = O1
           /\ lwrap' = LatchCollect(lwrap, O1, ldb)
    /\ lcall' = [op |-> "set", slot |-> sl, kind |-> "none", result |-> "accepted"]
    /\ UNCHANGED <<ldb, notLatchVars>>

\* opts.<slot> = value, for a value without the capability: the wrapper's
\* __cinit__ raises TypeError before anything is stored.
SetSlotRejected(sl, k) ==
    /\ ~Accepts(sl, k)
    /\ lcall' = [op |-> "set", slot |-> sl, kind |-> k, result |-> "TypeError"]
    /\ UNCHANGED <<lopts, lwrap, ldb, notLatchVars>>

\* The caller drops its reference to a value it assigned.
DropValue(w) ==
    /\ lwrap[w].callerRef
    /\ LET W1 == [lwrap EXCEPT ![w].callerRef = FALSE,
                               ![w].obAlive = (lwrap[w].kind = "generic" /\ lwrap[w].alive)]
       IN  lwrap' = LatchCollect(W1, lopts, ldb)
    /\ lcall' = [op |-> "drop", slot |-> lwrap[w].slot, kind |-> None, result |-> None]
    /\ UNCHANGED <<lopts, ldb, notLatchVars>>

\* DB(db_name, opts): the engine copies deref(opts.opts): the comparator and
\* filter policy pointers and a shared_ptr to the merge operator.
LatchOpen ==
    /\ ldb.state = "unopened"
    /\ ldb' = [state |-> "open", eng |-> lopts.nat]
    /\ lcall' = [op |-> "open", slot |-> None, kind |-> None, result |-> None]
    /\ UNCHANGED <<lopts, lwrap, notLatchVars>>

\* The engine of the open DB calls what it latched for a slot. A call through
\* a pointer to a deleted native object, or with a void* ctx whose caller
\* object is gone, is undefined: it may crash, misbehave or seem to work.
EngineCall(sl) ==
    /\ ldb.state = "open"
    /\ ldb.eng[sl] # 0
    /\ LET wr == lwrap[ldb.eng[sl]]
           sound == wr.native \in {"live", "static"} /\ (wr.kind = "generic" => wr.obAlive)
       IN  \E res \in IF sound THEN {"ran"} ELSE {"ran", "crashed", "garbage"} :
              lcall' = [op |-> "engine_call", slot |-> sl, kind |-> None,
                        result |-> IF sound THEN res ELSE "undefined_" \o res]
    /\ UNCHANGED <<lopts, lwrap, ldb, notLatchVars>>

\* The DB is deallocated (del self.db): the engine's shared_ptrs to the merge
\* operator and the cache go with it.
LatchClose ==
    /\ ldb.state = "open"
    /\ ldb' = [ldb EXCEPT !.state = "closed"]
    /\ lwrap' = [w \in WrapperIds |->
                    IF EngineShares(w, ldb) /\ ~lwrap[w].alive
                    THEN [lwrap[w] EXCEPT !.native = "deleted"]
                    ELSE lwrap[w]]
    /\ lcall' = [op |-> "close", slot |-> None, kind |-> None, result |-> None]
    /\ UNCHANGED <<lopts, notLatchVars>>

LatchNext ==
    \/ \E sl \in Slots, k \in ValueKinds, keep \in BOOLEAN, w \in WrapperIds :
          SetSlot(sl, k, keep, w)
    \/ \E sl \in Slots : SetSlotNone(sl)
    \/ \E sl \in Slots, k \in ValueKinds : SetSlotRejected(sl, k)
    \/ \E w \in WrapperIds : DropValue(w)
    \/ LatchOpen
    \/ \E sl \in Slots : EngineCall(sl)
    \/ LatchClose

(***************************************************************************)
(* BaseIterator, KeysIterator, ValuesIterator, ItemsIterator and           *)
(* ReversedIterator over the engine's iterator (lines 1166-1248)           *)
(***************************************************************************)

MaxKey == 3

Keys == 1..MaxKey

RECURSIVE SortedSeq(_)
\* The keys of a set in the order of the bytewise comparator.
SortedSeq(S) ==
    IF S = {} THEN <<>>
    ELSE LET m == CHOOSE x \in S : \A y \in S : x <= y
         IN  <<m>> \o SortedSeq(S \ {m})

\* The value stored under a key.
ValueOf(k) == <<"value", k>>

\* The engine's iterator. Valid(): positioned at an entry.
Valid(pos) == pos # 0

\* SeekToFirst / SeekToLast / Seek(target): the first entry, the last entry,
\* the first entry at or after target; not valid when there is none.
SeekToFirst(keys) == IF Len(keys) = 0 THEN 0 ELSE 1

SeekToLast(keys) == Len(keys)

Seek(keys, target) ==
    LET at == {i \in 1..Len(keys) : keys[i] >= target}
    IN  IF at = {} THEN 0 ELSE CHOOSE i \in at : \A j \in at : i <= j

\* Next() / Prev(): the positions the call can leave. Both require Valid();
\* on an iterator that is not valid the call is undefined and can leave it
\* anywhere.
Next(keys, pos) ==
    IF Valid(pos) THEN {IF pos < Len(keys) THEN pos + 1 ELSE 0}
    ELSE 0..Len(keys)

Prev(keys, pos) ==
    IF Valid(pos) THEN {pos - 1}
    ELSE 0..Len(keys)

\* What a read of freed or unpositioned memory gives, when it is no key.
Garbage == -1

\* key() / value(): what the call can return; undefined when not valid (the
\* entry of an earlier position, or anything else).
EntryKey(keys, pos) ==
    IF Valid(pos) THEN {keys[pos]} ELSE Keys \cup {Garbage}

\* get_ob of the three iterator classes, given the key the engine returned.
get_ob(kind, k) ==
    IF kind = "keys" THEN <<k>>
    ELSE IF kind = "values" THEN <<ValueOf(k)>>
    ELSE <<k, ValueOf(k)>>

RECURSIVE Insert(_, _)
\* A put of key k: the engine keeps its entries in comparator order, one entry
\* per key.
Insert(keys, k) ==
    IF keys = <<>> THEN <<k>>
    ELSE IF k = Head(keys) THEN keys
    ELSE IF k < Head(keys) THEN <<k>> \o keys
    ELSE <<Head(keys)>> \o Insert(Tail(keys), k)

\* A variant of ReversedIterator.__next__ that calls Next() as
\* BaseIterator.__next__ does.
AdvanceAlwaysForward(view, keys, pos) == Next(keys, pos)

\* The move of __next__: BaseIterator calls self.ptr.Next(), ReversedIterator
\* calls self.it.ptr.Prev(), on the same native iterator.
Advance(view, keys, pos) ==
    IF view = "forward" THEN Next(keys, pos) ELSE Prev(keys, pos)

\* A variant of __next__ without the test of Valid().
NextGuardMissing(pos) == FALSE

\* BaseIterator.__next__ / ReversedIterator.__next__: `if not
\* self.ptr.Valid(): raise StopIteration()`.
RaisesStopIteration(pos) == ~Valid(pos)

CkeysIdle == <<>>

\* yielded: what the call returned, <<>> when it returned nothing.
\* wasValid: what Valid() answered when the call began.
\* before: the view the call before this one was made through.
ClastIdle ==
    [op |-> "create", view |-> None, raised |-> None, yielded |-> <<>>, wasValid |-> FALSE,
     before |-> None]

\* A scan is a seek followed by calls of next through one view.
CscanIdle == [start |-> None, view |-> None]

\* seek_to_first() on the iterator or on its reversed wrapper, which forwards.
CursorSeekToFirst(view) ==
    /\ cpos' = SeekToFirst(ckeys)
    /\ cmoved' = TRUE
    /\ clast' = [op |-> "seek_to_first", view |-> view, raised |-> None, yielded |-> <<>>,
                 wasValid |-> Valid(cpos), before |-> clast.view]
    /\ cout' = <<>>
    /\ cscan' = [start |-> "seek_to_first", view |-> None]
    /\ UNCHANGED <<ckeys, ckind, notCursorVars>>

CursorSeekToLast(view) ==
    /\ cpos' = SeekToLast(ckeys)
    /\ cmoved' = TRUE
    /\ clast' = [op |-> "seek_to_last", view |-> view, raised |-> None, yielded |-> <<>>,
                 wasValid |-> Valid(cpos), before |-> clast.view]
    /\ cout' = <<>>
    /\ cscan' = [start |-> "seek_to_last", view |-> None]
    /\ UNCHANGED <<ckeys, ckind, notCursorVars>>

CursorSeek(view, target) ==
    /\ cpos' = Seek(ckeys, target)
    /\ cmoved' = TRUE
    /\ clast' = [op |-> "seek", view |-> view, raised |-> None, yielded |-> <<>>,
                 wasValid |-> Valid(cpos), before |-> clast.view]
    /\ cout' = <<>>
    /\ cscan' = [start |-> "seek", view |-> None]
    /\ UNCHANGED <<ckeys, ckind, notCursorVars>>

\* next(it), view "forward": BaseIterator.__next__ (Next); next(reversed(it)),
\* view "reversed": ReversedIterator.__next__ (Prev).
CursorAdvance(view) ==
    /\ IF RaisesStopIteration(cpos)
       THEN /\ clast' = [op |-> "next", view |-> view, raised |-> "StopIteration",
                         yielded |-> <<>>, wasValid |-> Valid(cpos),
                         before |-> clast.view]
            /\ UNCHANGED <<cpos, cmoved, cout, cscan>>
       ELSE /\ \E k \in EntryKey(ckeys, cpos) :
                  /\ clast' = [op |-> "next", view |-> view, raised |-> None,
                               yielded |-> get_ob(ckind, k), wasValid |-> Valid(cpos),
                               before |-> clast.view]
                  /\ IF cscan.start # None /\ cscan.view \in {None, view}
                     THEN /\ cout' = Append(cout, get_ob(ckind, k))
                          /\ cscan' = [cscan EXCEPT !.view = view]
                     ELSE /\ cout' = <<>>
                          /\ cscan' = CscanIdle
            /\ cpos' \in Advance(view, ckeys, cpos)
            /\ cmoved' = TRUE
    /\ UNCHANGED <<ckeys, ckind, notCursorVars>>

\* db.iterkeys() / itervalues() / iteritems(): another cursor, not positioned.
CursorCreate(kind) ==
    /\ clast.op # "create"
    /\ ckind' = kind
    /\ cpos' = 0
    /\ cmoved' = FALSE
    /\ clast' = ClastIdle
    /\ cout' = <<>>
    /\ cscan' = CscanIdle
    /\ UNCHANGED <<ckeys, notCursorVars>>

\* db.put(k, v) before the cursor is read: the cursor sees the key space as
\* the engine orders it.
CursorStore(k) ==
    /\ clast.op = "create"
    /\ ckeys' = Insert(ckeys, k)
    /\ UNCHANGED <<ckind, cpos, cmoved, clast, cout, cscan, notCursorVars>>

Views == {"forward", "reversed"}

CursorNext ==
    \/ \E v \in Views : CursorSeekToFirst(v)
    \/ \E v \in Views : CursorSeekToLast(v)
    \/ \E v \in Views, t \in Keys : CursorSeek(v, t)
    \/ \E v \in Views : CursorAdvance(v)
    \/ \E kind \in {"keys", "values", "items"} : CursorCreate(kind)
    \/ \E k \in Keys : CursorStore(k)

(***************************************************************************)
(* WriteBatch, DB.put / delete / merge / write / get / multi_get /         *)
(* snapshot and DB.build_read_opts (lines 910-1034, 1090-1091, 1132-1163)  *)
(***************************************************************************)

MaxBatch == 2

\* The keys of the model; WriteKeys are those that are ever written.
DbKeys == {"a", "b", "c"}

WriteKeys == {"a", "b"}

Values == {"v1", "v2"}

\* What the engine holds under a key: never written, deleted, or a value. A
\* value is the set of the operands that made it (the DB is opened with a
\* merge operator that collects them).
Absent(state) == [state |-> state, val |-> {}]

Present(val) == [state |-> "present", val |-> val]

DstoreIdle == [k \in DbKeys |-> Absent("never")]

\* The entries WriteBatch.put / merge / delete record.
Entries ==
    [op : {"put", "merge"}, key : WriteKeys, val : Values]
        \cup {[op |-> "delete", key |-> k, val |-> ""] : k \in WriteKeys}

\* The engine applies one entry.
ApplyEntry(store, e) ==
    [store EXCEPT ![e.key] =
        IF e.op = "put" THEN Present({e.val})
        ELSE IF e.op = "delete" THEN Absent("deleted")
        ELSE Present(@.val \cup {e.val})]

RECURSIVE ApplyBatch(_, _)
\* The engine applies the entries of a batch in their order.
ApplyBatch(store, batch) ==
    IF batch = <<>> THEN store
    ELSE ApplyBatch(ApplyEntry(store, Head(batch)), Tail(batch))

\* The statuses of the engine: ok, Not-Found, and those of a failure. A
\* failure the Is...() predicates do not know reports no category.
NotFoundStatus == [ok |-> FALSE, cats |-> {"NotFound"}, detail |-> "d1"]

ReadFaults == {"IOError", "Unknown"}

WriteFaults == {"IOError"}

FaultStatus(f) ==
    [ok |-> FALSE, cats |-> IF f = "Unknown" THEN {} ELSE {f}, detail |-> "d2"]

\* The engine's Write: the whole batch, or on a failure nothing of it.
EngineWrite(store, batch, f) ==
    IF f = None THEN [st |-> StatusIdle, store |-> ApplyBatch(store, batch)]
    ELSE [st |-> FaultStatus(f), store |-> store]

\* The engine's Get / MultiGet for one key, read in a view of the store:
\* the Status, and what was written to the result string.
EngineGet(view, k, f) ==
    IF f # None THEN [st |-> FaultStatus(f), res |-> {}]
    ELSE IF view[k].state = "present" THEN [st |-> StatusIdle, res |-> view[k].val]
    ELSE [st |-> NotFoundStatus, res |-> {}]

\* The Snapshot object: GetSnapshot pins the view of the store at that moment.
DsnapIdle == [state |-> "none", image |-> DstoreIdle]

\* A variant of build_read_opts that leaves opts.snapshot unset.
build_read_opts_unset(snapshot) == [snapshot |-> "NULL"]

\* build_read_opts: `if py_opts['snapshot'] is not None: opts.snapshot =
\* (<Snapshot?>(py_opts['snapshot'])).ptr`.
build_read_opts(snapshot) ==
    [snapshot |-> IF snapshot # None THEN "ptr" ELSE "NULL"]

\* The view the engine reads with the given ReadOptions.
ReadView(opts) == IF opts.snapshot = "NULL" THEN dstore ELSE dsnap.image

\* What a call gives back: a value, None, a dict, or an error.
EmptyDict == [k \in {} |-> Absent("never")]

ReturnValue(val) ==
    [kind |-> "value", value |-> val, dict |-> EmptyDict, raised |-> None,
     msg |-> Returned.msg]

ReturnNone ==
    [kind |-> "none", value |-> {}, dict |-> EmptyDict, raised |-> None,
     msg |-> Returned.msg]

ReturnDict(d) ==
    [kind |-> "dict", value |-> {}, dict |-> d, raised |-> None,
     msg |-> Returned.msg]

Raised(o) ==
    [kind |-> "raised", value |-> {}, dict |-> EmptyDict, raised |-> o.raised,
     msg |-> o.msg]

\* A call that ends with check_status(st): raises, or returns None.
Checked(s) ==
    IF check_status(s).raised # None THEN Raised(check_status(s)) ELSE ReturnNone

DlastIdle == [op |-> "none", req |-> <<>>, res |-> <<>>, snap |-> FALSE, out |-> ReturnNone]

\* A variant of DB.get that hands every status but ok to check_status.
get_without_absent(r) ==
    IF r.st.ok THEN ReturnValue(r.res) ELSE Checked(r.st)

\* DB.get after the engine's Get returned (lines 1005-1010).
get(r) ==
    IF r.st.ok THEN ReturnValue(r.res)
    ELSE IF "NotFound" \in r.st.cats THEN ReturnNone
    ELSE Checked(r.st)

\* ret_dict[key] = entry
SetItem(d, key, entry) ==
    [k \in DOMAIN d \cup {key} |-> IF k = key THEN entry ELSE d[k]]

RECURSIVE multi_get_deferring(_, _, _, _)
\* A variant of the loop of DB.multi_get that leaves a key with an error
\* status out and goes on, raising the error of the last such key.
multi_get_deferring(keys, res, index, ret_dict) ==
    IF index > Len(keys) THEN ReturnDict(ret_dict)
    ELSE IF res[index].st.ok
         THEN multi_get_deferring(keys, res, index + 1,
                                  SetItem(ret_dict, keys[index], Present(res[index].res)))
    ELSE IF "NotFound" \in res[index].st.cats
         THEN multi_get_deferring(keys, res, index + 1,
                                  SetItem(ret_dict, keys[index], Absent("none")))
    ELSE LET rest == multi_get_deferring(keys, res, index + 1, ret_dict)
         IN  IF rest.kind = "raised" THEN rest ELSE Checked(res[index].st)

RECURSIVE multi_get(_, _, _, _)
\* The loop of DB.multi_get over the statuses MultiGet returned
\* (lines 1025-1034), from position index on.
multi_get(keys, res, index, ret_dict) ==
    IF index > Len(keys) THEN ReturnDict(ret_dict)
    ELSE IF res[index].st.ok
         THEN multi_get(keys, res, index + 1,
                        SetItem(ret_dict, keys[index], Present(res[index].res)))
    ELSE IF "NotFound" \in res[index].st.cats
         THEN multi_get(keys, res, index + 1,
                        SetItem(ret_dict, keys[index], Absent("none")))
    ELSE IF Checked(res[index].st).kind = "raised" THEN Checked(res[index].st)
    ELSE multi_get(keys, res, index + 1, ret_dict)

\* A variant of DB.write that hands the engine one entry at a time.
WriteCallsPerEntry(batch) == [i \in 1..Len(batch) |-> <<batch[i]>>]

\* DB.write: the calls of the engine's Write it makes, one with the batch.
WriteCalls(batch) == <<batch>>

RECURSIVE RunWrites(_, _, _, _)
\* The calls are made in order; call number failAt (if any) fails with fault
\* f, and check_status ends the method there.
RunWrites(store, calls, failAt, f) ==
    IF calls = <<>> THEN [st |-> StatusIdle, store |-> store]
    ELSE LET r == EngineWrite(store, Head(calls), IF failAt = 1 THEN f ELSE None)
         IN  IF ~r.st.ok THEN r
             ELSE RunWrites(r.store, Tail(calls), failAt - 1, f)

\* db.put(key, value)
DbPut(k, v, f) ==
    LET r == EngineWrite(dstore, <<[op |-> "put", key |-> k, val |-> v]>>, f)
    IN  /\ dstore' = r.store
        /\ dlast' = [op |-> "put", req |-> <<k>>, res |-> <<>>, snap |-> FALSE,
                     out |-> Checked(r.st)]
        /\ UNCHANGED <<dbatch, dsnap, notDbVars>>

\* db.delete(key)
DbDelete(k, f) ==
    LET r == EngineWrite(dstore, <<[op |-> "delete", key |-> k, val |-> ""]>>, f)
    IN  /\ dstore' = r.store
        /\ dlast' = [op |-> "delete", req |-> <<k>>, res |-> <<>>, snap |-> FALSE,
                     out |-> Checked(r.st)]
        /\ UNCHANGED <<dbatch, dsnap, notDbVars>>

\* db.merge(key, value)
DbMerge(k, v, f) ==
    LET r == EngineWrite(dstore, <<[op |-> "merge", key |-> k, val |-> v]>>, f)
    IN  /\ dstore' = r.store
        /\ dlast' = [op |-> "merge", req |-> <<k>>, res |-> <<>>, snap |-> FALSE,
                     out |-> Checked(r.st)]
        /\ UNCHANGED <<dbatch, dsnap, notDbVars>>

\* batch.put / batch.merge / batch.delete: one more entry; batch.clear().
BatchPut(k, v) ==
    /\ Len(dbatch) < MaxBatch
    /\ dbatch' = Append(dbatch, [op |-> "put", key |-> k, val |-> v])
    /\ dlast' = [DlastIdle EXCEPT !.op = "batch"]
    /\ UNCHANGED <<dstore, dsnap, notDbVars>>

BatchMerge(k, v) ==
    /\ Len(dbatch) < MaxBatch
    /\ dbatch' = Append(dbatch, [op |-> "merge", key |-> k, val |-> v])
    /\ dlast' = [DlastIdle EXCEPT !.op = "batch"]
    /\ UNCHANGED <<dstore, dsnap, notDbVars>>

BatchDelete(k) ==
    /\ Len(dbatch) < MaxBatch
    /\ dbatch' = Append(dbatch, [op |-> "delete", key |-> k, val |-> ""])
    /\ dlast' = [DlastIdle EXCEPT !.op = "batch"]
    /\ UNCHANGED <<dstore, dsnap, notDbVars>>

BatchClear ==
    /\ dbatch # <<>>
    /\ dbatch' = <<>>
    /\ dlast' = [DlastIdle EXCEPT !.op = "batch"]
    /\ UNCHANGED <<dstore, dsnap, notDbVars>>

\* db.write(batch)
DbWrite(batch, failAt, f) ==
    LET r == RunWrites(dstore, WriteCalls(batch), failAt, f)
    IN  /\ failAt \in 0..Len(WriteCalls(batch))
        /\ dstore' = r.store
        /\ dlast' = [op |-> "write", req |-> <<>>, res |-> <<>>, snap |-> FALSE,
                     out |-> Checked(r.st)]
        /\ UNCHANGED <<dbatch, dsnap, notDbVars>>

\* db.snapshot(): a Snapshot of the store as it is; the one held before is
\* dropped.
DbSnapshot ==
    /\ dsnap' = [state |-> "alive", image |-> dstore]
    /\ dlast' = [DlastIdle EXCEPT !.op = "snapshot"]
    /\ UNCHANGED <<dstore, dbatch, notDbVars>>

\* db.get(key) and db.get(key, snapshot=s)
DbGet(k, withSnap, f) ==
    LET snapshot == IF withSnap THEN "s" ELSE None
        r == EngineGet(ReadView(build_read_opts(snapshot)), k, f)
    IN  /\ withSnap => dsnap.state = "alive"
        /\ dlast' = [op |-> "get", req |-> <<k>>, res |-> <<r>>, snap |-> withSnap,
                     out |-> get(r)]
        /\ UNCHANGED <<dstore, dbatch, dsnap, notDbVars>>

\* The lists of keys asked of multi_get: each key at most once, in any order.
Requests ==
    {q \in UNION {[1..n -> DbKeys] : n \in 0..Cardinality(DbKeys)} :
        \A i, j \in 1..Len(q) : q[i] = q[j] => i = j}

\* db.multi_get(keys); faults names, per position, the failure of that key.
DbMultiGet(keys, faults) ==
    LET res == [i \in 1..Len(keys) |->
                    EngineGet(ReadView(build_read_opts(None)), keys[i], faults[i])]
    IN  /\ dlast' = [op |-> "multi_get", req |-> keys, res |-> res, snap |-> FALSE,
                     out |-> multi_get(keys, res, 1, EmptyDict)]
        /\ UNCHANGED <<dstore, dbatch, dsnap, notDbVars>>

\* Two entries in one batch.
PairBatches == {<<e1, e2>> : e1 \in Entries, e2 \in Entries}

ReadNext ==
    \/ \E k \in WriteKeys, v \in Values, f \in WriteFaults \cup {None} : DbPut(k, v, f)
    \/ \E k \in WriteKeys, f \in WriteFaults \cup {None} : DbDelete(k, f)
    \/ \E k \in DbKeys, f \in ReadFaults \cup {None} : DbGet(k, FALSE, f)
    \/ \E keys \in Requests :
          \E faults \in [1..Len(keys) -> ReadFaults \cup {None}] : DbMultiGet(keys, faults)

WriteNext ==
    \/ \E k \in WriteKeys, v \in Values : BatchPut(k, v)
    \/ \E k \in WriteKeys, v \in Values : BatchMerge(k, v)
    \/ \E k \in WriteKeys : BatchDelete(k)
    \/ BatchClear
    \/ \E failAt \in 0..MaxBatch, f \in WriteFaults : DbWrite(dbatch, failAt, f)
    \/ \E k \in WriteKeys : DbGet(k, FALSE, None)

SnapNext ==
    \/ \E k \in WriteKeys, v \in Values : DbPut(k, v, None)
    \/ \E k \in WriteKeys : DbDelete(k, None)
    \/ \E k \in WriteKeys, v \in Values : DbMerge(k, v, None)
    \/ \E b \in PairBatches : DbWrite(b, 0, None)
    \/ DbSnapshot
    \/ \E k \in WriteKeys, withSnap \in BOOLEAN : DbGet(k, withSnap, None)

StatusNext == CheckStatus \/ NextStatus

SpecStatusInit ==
    /\ st \in StatusSet
    /\ spc = "call"
    /\ outcome = Returned
    /\ cb = BridgeIdle
    /\ gil = GilIdle
    /\ elock = ElockIdle
    /\ tpc = TpcIdle
    /\ hdb = HdbIdle
    /\ snaps = SnapsIdle
    /\ iters = ItersIdle
    /\ caches = CachesIdle
    /\ copts = CoptsIdle
    /\ chandles = ChandlesIdle
    /\ lopts = LoptsIdle
    /\ lwrap = LwrapIdle
    /\ ldb = LdbIdle
    /\ lcall = LcallIdle
    /\ ckeys = CkeysIdle
    /\ ckind = "keys"
    /\ cpos = 0
    /\ cmoved = FALSE
    /\ clast = ClastIdle
    /\ cout = <<>>
    /\ cscan = CscanIdle
    /\ dstore = DstoreIdle
    /\ dbatch = <<>>
    /\ dsnap = DsnapIdle
    /\ dlast = DlastIdle

SpecBridgeInit ==
    /\ st = StatusIdle
    /\ spc = "call"
    /\ outcome = Returned
    /\ cb = BridgeIdle
    /\ gil = GilIdle
    /\ elock = ElockIdle
    /\ tpc = TpcIdle
    /\ hdb = HdbIdle
    /\ snaps = SnapsIdle
    /\ iters = ItersIdle
    /\ caches = CachesIdle
    /\ copts = CoptsIdle
    /\ chandles = ChandlesIdle
    /\ lopts = LoptsIdle
    /\ lwrap = LwrapIdle
    /\ ldb = LdbIdle
    /\ lcall = LcallIdle
    /\ ckeys = CkeysIdle
    /\ ckind = "keys"
    /\ cpos = 0
    /\ cmoved = FALSE
    /\ clast = ClastIdle
    /\ cout = <<>>
    /\ cscan = CscanIdle
    /\ dstore = DstoreIdle
    /\ dbatch = <<>>
    /\ dsnap = DsnapIdle
    /\ dlast = DlastIdle

SpecGilInit ==
    /\ st = StatusIdle
    /\ spc = "call"
    /\ outcome = Returned
    /\ cb = BridgeIdle
    /\ gil = None
    /\ elock = None
    /\ tpc = TpcIdle
    /\ hdb = HdbIdle
    /\ snaps = SnapsIdle
    /\ iters = ItersIdle
    /\ caches = CachesIdle
    /\ copts = CoptsIdle
    /\ chandles = ChandlesIdle
    /\ lopts = LoptsIdle
    /\ lwrap = LwrapIdle
    /\ ldb = LdbIdle
    /\ lcall = LcallIdle
    /\ ckeys = CkeysIdle
    /\ ckind = "keys"
    /\ cpos = 0
    /\ cmoved = FALSE
    /\ clast = ClastIdle
    /\ cout = <<>>
    /\ cscan = CscanIdle
    /\ dstore = DstoreIdle
    /\ dbatch = <<>>
    /\ dsnap = DsnapIdle
    /\ dlast = DlastIdle

SpecHandleInit ==
    /\ st = StatusIdle
    /\ spc = "call"
    /\ outcome = Returned
    /\ cb = BridgeIdle
    /\ gil = GilIdle
    /\ elock = ElockIdle
    /\ tpc = TpcIdle
    /\ hdb = HdbIdle
    /\ snaps = SnapsIdle
    /\ iters = ItersIdle
    /\ caches = CachesIdle
    /\ copts = CoptsIdle
    /\ chandles = ChandlesIdle
    /\ lopts = LoptsIdle
    /\ lwrap = LwrapIdle
    /\ ldb = LdbIdle
    /\ lcall = LcallIdle
    /\ ckeys = CkeysIdle
    /\ ckind = "keys"
    /\ cpos = 0
    /\ cmoved = FALSE
    /\ clast = ClastIdle
    /\ cout = <<>>
    /\ cscan = CscanIdle
    /\ dstore = DstoreIdle
    /\ dbatch = <<>>
    /\ dsnap = DsnapIdle
    /\ dlast = DlastIdle

SpecCacheInit ==
    /\ st = StatusIdle
    /\ spc = "call"
    /\ outcome = Returned
    /\ cb = BridgeIdle
    /\ gil = GilIdle
    /\ elock = ElockIdle
    /\ tpc = TpcIdle
    /\ hdb = HdbIdle
    /\ snaps = SnapsIdle
    /\ iters = ItersIdle
    /\ caches = CachesIdle
    /\ copts = CoptsIdle
    /\ chandles = ChandlesIdle
    /\ lopts = LoptsIdle
    /\ lwrap = LwrapIdle
    /\ ldb = LdbIdle
    /\ lcall = LcallIdle
    /\ ckeys = CkeysIdle
    /\ ckind = "keys"
    /\ cpos = 0
    /\ cmoved = FALSE
    /\ clast = ClastIdle
    /\ cout = <<>>
    /\ cscan = CscanIdle
    /\ dstore = DstoreIdle
    /\ dbatch = <<>>
    /\ dsnap = DsnapIdle
    /\ dlast = DlastIdle

SpecLatchInit ==
    /\ st = StatusIdle
    /\ spc = "call"
    /\ outcome = Returned
    /\ cb = BridgeIdle
    /\ gil = GilIdle
    /\ elock = ElockIdle
    /\ tpc = TpcIdle
    /\ hdb = HdbIdle
    /\ snaps = SnapsIdle
    /\ iters = ItersIdle
    /\ caches = CachesIdle
    /\ copts = CoptsIdle
    /\ chandles = ChandlesIdle
    /\ lopts = LoptsIdle
    /\ lwrap = LwrapIdle
    /\ ldb = LdbIdle
    /\ lcall = LcallIdle
    /\ ckeys = CkeysIdle
    /\ ckind = "keys"
    /\ cpos = 0
    /\ cmoved = FALSE
    /\ clast = ClastIdle
    /\ cout = <<>>
    /\ cscan = CscanIdle
    /\ dstore = DstoreIdle
    /\ dbatch = <<>>
    /\ dsnap = DsnapIdle
    /\ dlast = DlastIdle

SpecCursorInit ==
    /\ st = StatusIdle
    /\ spc = "call"
    /\ outcome = Returned
    /\ cb = BridgeIdle
    /\ gil = GilIdle
    /\ elock = ElockIdle
    /\ tpc = TpcIdle
    /\ hdb = HdbIdle
    /\ snaps = SnapsIdle
    /\ iters = ItersIdle
    /\ caches = CachesIdle
    /\ copts = CoptsIdle
    /\ chandles = ChandlesIdle
    /\ lopts = LoptsIdle
    /\ lwrap = LwrapIdle
    /\ ldb = LdbIdle
    /\ lcall = LcallIdle
    /\ ckeys \in {SortedSeq(S) : S \in SUBSET Keys}
    /\ ckind \in {"keys", "values", "items"}
    /\ cpos = 0
    /\ cmoved = FALSE
    /\ clast = ClastIdle
    /\ cout = <<>>
    /\ cscan = CscanIdle
    /\ dstore = DstoreIdle
    /\ dbatch = <<>>
    /\ dsnap = DsnapIdle
    /\ dlast = DlastIdle

SpecReadInit ==
    /\ st = StatusIdle
    /\ spc = "call"
    /\ outcome = Returned
    /\ cb = BridgeIdle
    /\ gil = GilIdle
    /\ elock = ElockIdle
    /\ tpc = TpcIdle
    /\ hdb = HdbIdle
    /\ snaps = SnapsIdle
    /\ iters = ItersIdle
    /\ caches = CachesIdle
    /\ copts = CoptsIdle
    /\ chandles = ChandlesIdle
    /\ lopts = LoptsIdle
    /\ lwrap = LwrapIdle
    /\ ldb = LdbIdle
    /\ lcall = LcallIdle
    /\ ckeys = CkeysIdle
    /\ ckind = "keys"
    /\ cpos = 0
    /\ cmoved = FALSE
    /\ clast = ClastIdle
    /\ cout = <<>>
    /\ cscan = CscanIdle
    /\ dstore = DstoreIdle
    /\ dbatch = <<>>
    /\ dsnap = DsnapIdle
    /\ dlast = DlastIdle

SpecWriteInit ==
    /\ st = StatusIdle
    /\ spc = "call"
    /\ outcome = Returned
    /\ cb = BridgeIdle
    /\ gil = GilIdle
    /\ elock = ElockIdle
    /\ tpc = TpcIdle
    /\ hdb = HdbIdle
    /\ snaps = SnapsIdle
    /\ iters = ItersIdle
    /\ caches = CachesIdle
    /\ copts = CoptsIdle
    /\ chandles = ChandlesIdle
    /\ lopts = LoptsIdle
    /\ lwrap = LwrapIdle
    /\ ldb = LdbIdle
    /\ lcall = LcallIdle
    /\ ckeys = CkeysIdle
    /\ ckind = "keys"
    /\ cpos = 0
    /\ cmoved = FALSE
    /\ clast = ClastIdle
    /\ cout = <<>>
    /\ cscan = CscanIdle
    /\ dstore = DstoreIdle
    /\ dbatch = <<>>
    /\ dsnap = DsnapIdle
    /\ dlast = DlastIdle

SpecSnapInit ==
    /\ st = StatusIdle
    /\ spc = "call"
    /\ outcome = Returned
    /\ cb = BridgeIdle
    /\ gil = GilIdle
    /\ elock = ElockIdle
    /\ tpc = TpcIdle
    /\ hdb = HdbIdle
    /\ snaps = SnapsIdle
    /\ iters = ItersIdle
    /\ caches = CachesIdle
    /\ copts = CoptsIdle
    /\ chandles = ChandlesIdle
    /\ lopts = LoptsIdle
    /\ lwrap = LwrapIdle
    /\ ldb = LdbIdle
    /\ lcall = LcallIdle
    /\ ckeys = CkeysIdle
    /\ ckind = "keys"
    /\ cpos = 0
    /\ cmoved = FALSE
    /\ clast = ClastIdle
    /\ cout = <<>>
    /\ cscan = CscanIdle
    /\ dstore = DstoreIdle
    /\ dbatch = <<>>
    /\ dsnap = DsnapIdle
    /\ dlast = DlastIdle

SpecStatus == SpecStatusInit /\ [][StatusNext]_vars

SpecBridge == SpecBridgeInit /\ [][BridgeNext]_vars

SpecGil == SpecGilInit /\ [][GilNext]_vars

SpecHandle == SpecHandleInit /\ [][HandleNext]_vars

SpecCache == SpecCacheInit /\ [][CacheNext]_vars

SpecLatch == SpecLatchInit /\ [][LatchNext]_vars

SpecCursor == SpecCursorInit /\ [][CursorNext]_vars

SpecRead == SpecReadInit /\ [][ReadNext]_vars

SpecWrite == SpecWriteInit /\ [][WriteNext]_vars

SpecSnap == SpecSnapInit /\ [][SnapNext]_vars

(***************************************************************************)
(* C1                                                                      *)
(***************************************************************************)

\* The fixed order of the classification, and the error class of each place.
PriorityOrder ==
    <<"NotFound", "Corruption", "NotSupported", "InvalidArgument",
      "IOError", "MergeInProgress", "Incomplete">>

ErrorClassOf(c) == IF c = "IOError" THEN "RocksIOError" ELSE c

FirstReported(s) ==
    LET hits == {i \in 1..Len(PriorityOrder) : PriorityOrder[i] \in s.cats}
    IN  IF hits = {} THEN 0
        ELSE CHOOSE i \in hits : \A j \in hits : i <= j

CarriesDetail(msg, s) == msg.text = ToString(s) /\ s.detail = msg.text[2]

\* C1: check_status returns normally on an ok status; otherwise it raises one
\* error, of the first category in the fixed order that the status reports,
\* or the unknown error when it reports none; the error carries the detail.
C1_StatusTranslation ==
    spc = "done" =>
        IF st.ok THEN outcome = Returned
        ELSE /\ outcome.raised # None
             /\ CarriesDetail(outcome.msg, st)
             /\ IF FirstReported(st) = 0
                THEN outcome.raised = "Exception"
                     /\ outcome.msg.prefix = "Unknown error: "
                ELSE outcome.raised = ErrorClassOf(PriorityOrder[FirstReported(st)])

\* A status reporting two categories, the later of the order among them,
\* was translated.
C1_Witness ==
    /\ spc = "done"
    /\ ~st.ok
    /\ st.cats = {"Corruption", "NotFound"}
    /\ outcome.raised = "NotFound"

(***************************************************************************)
(* C2, C3                                                                  *)
(***************************************************************************)

Faulted == cb.pc = "returned" /\ cb.fault # None

LoggedToEngine == \E i \in 1..Len(cb.log) : cb.log[i].text = "Error in " \o cb.name

TracebackWritten ==
    \/ \E i \in 1..Len(cb.log) : cb.log[i].traceback
    \/ \E i \in 1..Len(cb.stderr) : cb.stderr[i].traceback

\* C2: a merge callback in which a fault was raised, wherever between entry
\* and return, has caught it in its own except clause, written a diagnostic
\* to the engine's logger and returns false.
C2_MergeFaultContained ==
    (Faulted /\ cb.name \in MergeCallbacks) =>
        /\ cb.handler = "bridge"
        /\ LoggedToEngine
        /\ cb.ret = "false"

\* C3: a comparator or filter callback whose caller logic raised has caught
\* the fault in the bridge and has logged it with a stack trace (the code
\* names no failure value for these callbacks, so none is asked for here).
C3_PlainFaultContained ==
    (Faulted /\ cb.name \in PlainCallbacks /\ cb.site = "caller_logic") =>
        /\ cb.handler = "bridge"
        /\ TracebackWritten

(***************************************************************************)
(* C4                                                                      *)
(***************************************************************************)

BlockedOnEngine(t) == tpc[t].at = "engine_call" /\ elock # None /\ elock # t

BlockedOnGil(b) == tpc[b].at = "want_gil" /\ gil # None /\ gil # b

\* C4: no reachable state has a caller thread that holds the interpreter lock
\* while blocked on the engine and a background thread that holds the
\* engine's lock while blocked on the interpreter lock.
C4_NoGilEngineDeadlock ==
    ~ \E t \in CallerThreads, b \in BackgroundThreads :
        /\ gil = t
        /\ BlockedOnEngine(t)
        /\ elock = b
        /\ BlockedOnGil(b)

(***************************************************************************)
(* C6, C7                                                                  *)
(***************************************************************************)

\* C6: a Snapshot is released to the engine exactly once, at the end of its
\* life, and always while the engine instance of its DB still exists.
C6_SnapshotReleasedOnce ==
    \A i \in SnapshotIds :
        /\ snaps[i].state = "alive" => snaps[i].releases = 0 /\ hdb.state = "open"
        /\ snaps[i].state = "dead" => snaps[i].releases = 1 /\ ~snaps[i].late

\* The caller dropped the DB first and the Snapshot after it.
C6_Witness ==
    \E i \in SnapshotIds :
        /\ snaps[i].state = "dead"
        /\ hdb.state = "released"
        /\ \E k \in SnapshotIds : k # i /\ snaps[k].state = "dead"

\* C7: while an iterator has its native traversal state the engine instance
\* exists; none is destroyed or used after the engine instance was released.
C7_CursorWithinHandle ==
    \A j \in IteratorIds :
        /\ iters[j].state = "alive" => hdb.state = "open"
        /\ ~iters[j].lateDestroy
        /\ ~iters[j].lateUse

\* The DB was dropped before an iterator that was kept alive by its reversed
\* wrapper only, and the engine instance went with the wrapper.
C7_Witness ==
    \E j \in IteratorIds :
        /\ iters[j].state = "dead"
        /\ iters[j].rev = "dead"
        /\ hdb.state = "released"

(***************************************************************************)
(* C8                                                                      *)
(***************************************************************************)

\* Who refers to cache c: the caller's cache object, a slot of a living
\* Options, the engine of an open DB.
CacheReferenced(c) ==
    \/ caches[c].obj = "alive"
    \/ \E o \in OptionsIds, sl \in CacheSlots :
          copts[o].state = "alive" /\ copts[o].py[sl] = c
    \/ \E d \in HandleIds, sl \in CacheSlots :
          chandles[d].state = "open" /\ chandles[d].eng[sl] = c

\* C8: a native cache exists as long as the cache object, a slot of an
\* Options or an open DB refers to it, and is destroyed once none does.
C8_CacheRefCounted ==
    \A c \in CacheIds :
        caches[c].obj # "none" =>
            /\ CacheReferenced(c) => caches[c].native = "live"
            /\ ~CacheReferenced(c) => caches[c].native = "destroyed"

\* A cache that two Options shared and a DB was opened with was destroyed
\* with its last referrer.
C8_Witness ==
    \E c \in CacheIds :
        /\ caches[c].native = "destroyed"
        /\ \E d \in HandleIds : chandles[d].state = "closed"
        /\ \A o \in OptionsIds : copts[o].state = "dead"

(***************************************************************************)
(* C5                                                                      *)
(***************************************************************************)

\* What the engine latched for a slot can still be called as it was at open.
LatchedSound(sl) ==
    ldb.eng[sl] # 0 =>
        /\ lwrap[ldb.eng[sl]].native \in {"live", "static"}
        /\ lwrap[ldb.eng[sl]].kind = "generic" => lwrap[ldb.eng[sl]].obAlive

\* C5: whatever is assigned to the slots of the Options after open, the open
\* DB keeps behaving according to the implementations latched at open: they
\* stay callable, and no call of the engine into them is undefined.
C5_LatchedAtOpen ==
    ldb.state = "open" =>
        /\ \A sl \in Slots : LatchedSound(sl)
        /\ lcall.op = "engine_call" => lcall.result = "ran"

(***************************************************************************)
(* C9, C10                                                                 *)
(***************************************************************************)

CursorState ==
    IF Valid(cpos) THEN "valid"
    ELSE IF cmoved THEN "exhausted"
    ELSE "unpositioned"

SeekOps == {"seek_to_first", "seek_to_last", "seek"}

\* C9: a new cursor is unpositioned; an advance through either view leaves an
\* exhausted cursor exhausted and yields nothing; only a seek makes an
\* exhausted cursor valid; an advance from valid leads to valid or exhausted.
C9_CursorStateMachine ==
    /\ CursorState = "unpositioned"
    /\ [][/\ clast'.op = "create" => CursorState' = "unpositioned"
          /\ (CursorState = "exhausted" /\ clast'.op = "next") =>
                (CursorState' = "exhausted" /\ clast'.yielded = <<>>)
          /\ (CursorState = "exhausted" /\ CursorState' = "valid") =>
                clast'.op \in SeekOps
          /\ (CursorState = "valid" /\ clast'.op = "next") =>
                CursorState' \in {"valid", "exhausted"}]_vars

\* An exhausted cursor over a non-empty key space was advanced again through
\* the reversed wrapper.
C9_Witness ==
    /\ clast.op = "next" /\ clast.view = "reversed"
    /\ clast.raised = "StopIteration"
    /\ CursorState = "exhausted"
    /\ Len(ckeys) >= 2

\* The classes that report an error: those of the errors module, and
\* Python's own error classes. StopIteration only ends an iteration.
ErrorClasses ==
    {"NotFound", "Corruption", "NotSupported", "InvalidArgument", "RocksIOError",
     "MergeInProgress", "Incomplete", "Exception", "TypeError", "ValueError"}

ReadWhileNotValid == clast.op = "next" /\ ~clast.wasValid

\* C10 as stated: a read of a cursor that is not valid fails with an error
\* and returns no data.
C10_ReadFailsWithError ==
    ReadWhileNotValid => (clast.raised \in ErrorClasses /\ clast.yielded = <<>>)

\* C10 as amended: a read of a cursor that is not valid returns no data, in
\* particular not the entry of an earlier position; it raises StopIteration,
\* the signal that ends an iteration.
C10_ReadYieldsNothing ==
    ReadWhileNotValid => (clast.raised = "StopIteration" /\ clast.yielded = <<>>)

\* A cursor that was positioned on entries before was read after it ran out.
C10_Witness ==
    /\ ReadWhileNotValid
    /\ cmoved
    /\ Len(ckeys) >= 2
    /\ clast.view = "forward"

(***************************************************************************)
(* C11, C12                                                                *)
(***************************************************************************)

\* C11: the wrapper and the wrapped cursor have one position. Whatever view
\* the calls before went through, a seek through either view leaves the
\* position the engine's seek gives, and a next on a valid cursor returns the
\* entry at the position the call before left and moves it by one entry:
\* backward through the wrapper, forward through the wrapped cursor.
C11_SharedPosition ==
    [][/\ clast'.op = "seek_to_first" => cpos' = SeekToFirst(ckeys)
       /\ clast'.op = "seek_to_last" => cpos' = SeekToLast(ckeys)
       /\ (clast'.op = "next" /\ Valid(cpos) /\ clast' # clast) =>
             /\ clast'.yielded = get_ob(ckind, ckeys[cpos])
             /\ cpos' = IF clast'.view = "reversed" THEN cpos - 1
                        ELSE IF cpos < Len(ckeys) THEN cpos + 1 ELSE 0]_vars

\* The wrapper was read right after a call through the wrapped cursor, and
\* the wrapped cursor right after that.
C11_Witness ==
    /\ clast.op = "next" /\ clast.view = "forward" /\ clast.before = "reversed"
    /\ clast.yielded # <<>>
    /\ cscan = CscanIdle
    /\ Valid(cpos)

\* The stored keys in ascending order, as the given kind of cursor yields them.
Ascending ==
    LET sorted == SortedSeq({ckeys[i] : i \in 1..Len(ckeys)})
    IN  [i \in 1..Len(sorted) |-> get_ob(ckind, sorted[i])]

Reverse(s) == [i \in 1..Len(s) |-> s[Len(s) + 1 - i]]

\* C12: a scan from seek_to_first through the wrapped cursor that has run out
\* has yielded every stored key once, ascending; a scan from seek_to_last
\* through the wrapper that has run out has yielded the reverse of that.
C12_CursorOrdering ==
    ~Valid(cpos) =>
        /\ (cscan.start = "seek_to_first" /\ cscan.view \in {None, "forward"}) =>
               cout = Ascending
        /\ (cscan.start = "seek_to_last" /\ cscan.view \in {None, "reversed"}) =>
               cout = Reverse(Ascending)

\* A scan through the wrapper over three keys or more ran out.
C12_Witness ==
    /\ ~Valid(cpos)
    /\ cscan.start = "seek_to_last" /\ cscan.view = "reversed"
    /\ Len(cout) >= 3
    /\ clast.raised = "StopIteration"

(***************************************************************************)
(* C13, C14                                                                *)
(***************************************************************************)

\* The error class the translation of a non-ok status raises.
ExpectedError(s) ==
    IF FirstReported(s) = 0 THEN "Exception"
    ELSE ErrorClassOf(PriorityOrder[FirstReported(s)])

ErrorStatus(s) == ~s.ok /\ "NotFound" \notin s.cats

\* C13: get returns the stored value when the engine's status is ok, returns
\* None and raises nothing when it is Not-Found, and for every other status
\* raises the error of the translation and returns no value.
C13_GetOutcome ==
    dlast.op = "get" =>
        LET k == dlast.req[1]
            s == dlast.res[1].st
        IN  IF s.ok
            THEN /\ dstore[k].state = "present"
                 /\ dlast.out.kind = "value"
                 /\ dlast.out.value = dstore[k].val
                 /\ dlast.out.raised = None
            ELSE IF "NotFound" \in s.cats
            THEN /\ dstore[k].state # "present"
                 /\ dlast.out.kind = "none"
                 /\ dlast.out.raised = None
            ELSE /\ dlast.out.kind = "raised"
                 /\ dlast.out.raised = ExpectedError(s)
                 /\ dlast.out.value = {}

\* A key that was written and deleted was read.
C13_Witness ==
    /\ dlast.op = "get"
    /\ dstore[dlast.req[1]].state = "deleted"
    /\ dlast.out.kind = "none"

\* C14: multi_get classifies the status of each key by itself. With no error
\* status it returns a dict that maps every requested key to its value or to
\* None; otherwise it raises the translated error of the first key in
\* request order whose status is an error, and returns no dict.
C14_MultiGetOutcome ==
    dlast.op = "multi_get" =>
        LET n == Len(dlast.req)
            errs == {i \in 1..n : ErrorStatus(dlast.res[i].st)}
        IN  IF errs = {}
            THEN /\ dlast.out.kind = "dict"
                 /\ dlast.out.raised = None
                 /\ DOMAIN dlast.out.dict = {dlast.req[i] : i \in 1..n}
                 /\ \A i \in 1..n :
                       dlast.out.dict[dlast.req[i]] =
                           IF dstore[dlast.req[i]].state = "present"
                           THEN Present(dstore[dlast.req[i]].val)
                           ELSE Absent("none")
            ELSE LET first == CHOOSE i \in errs : \A j \in errs : i <= j
                 IN  /\ dlast.out.kind = "raised"
                     /\ dlast.out.raised = ExpectedError(dlast.res[first].st)
                     /\ dlast.out.dict = EmptyDict

\* multi_get(["a", "b", "c"]) with a stored, b deleted and c never written.
C14_Witness ==
    /\ dlast.op = "multi_get"
    /\ dlast.req = <<"a", "b", "c">>
    /\ dstore["a"].state = "present"
    /\ dstore["b"].state = "deleted"
    /\ dstore["c"].state = "never"
    /\ dlast.out.kind = "dict"
    /\ dlast.out.dict["a"] = Present(dstore["a"].val)
    /\ dlast.out.dict["b"] = Absent("none")

(***************************************************************************)
(* C15, C16                                                                *)
(***************************************************************************)

\* What key k holds once every entry of the batch has taken effect in batch
\* order on the store before: the last put or delete of k decides, and the
\* merges after it add their operands.
EffectOn(before, batch, k) ==
    LET mine == {i \in 1..Len(batch) : batch[i].key = k}
        resets == {i \in mine : batch[i].op \in {"put", "delete"}}
        last == IF resets = {} THEN 0 ELSE CHOOSE i \in resets : \A j \in resets : j <= i
        base == IF last = 0 THEN before[k]
                ELSE IF batch[last].op = "put" THEN Present({batch[last].val})
                ELSE Absent("deleted")
        merged == {batch[i].val : i \in {j \in mine : j > last}}
    IN  IF merged = {} THEN base ELSE Present(base.val \cup merged)

\* What a get gives for the content of a key.
Expected(cell) ==
    IF cell.state = "present" THEN ReturnValue(cell.val) ELSE ReturnNone

C16_SnapshotIsolation ==
    [][/\ dlast'.op = "snapshot" => dsnap'.image = dstore
       /\ dlast'.op # "snapshot" => dsnap' = dsnap
       /\ dlast'.op = "get" =>
             dlast'.out = IF dlast'.snap
                          THEN Expected(dsnap.image[dlast'.req[1]])
                          ELSE Expected(dstore[dlast'.req[1]])]_vars

\* k = v1 was written, the snapshot taken, k = v2 written, and k read with
\* the snapshot.
C16_Witness ==
    /\ dlast.op = "get" /\ dlast.snap
    /\ dsnap.image[dlast.req[1]] = Present({"v1"})
    /\ dstore[dlast.req[1]] = Present({"v2"})
    /\ dlast.out.value = {"v1"}

(***************************************************************************)
(* C17, C18, C19                                                           *)
(***************************************************************************)

\* C17: an assignment to the comparator slot of an object without the
\* comparator capability raises InvalidArgument; an assignment of the
\* built-in comparator is accepted and leaves the built-in itself in the
\* slot, not a generic bridge.
C17_ComparatorSetter ==
    (lcall.op = "set" /\ lcall.slot = "comparator") =>
        /\ ~Accepts("comparator", lcall.kind) => lcall.result = "InvalidArgument"
        /\ lcall.kind = "bytewise" =>
              /\ lcall.result = "accepted"
              /\ lwrap[lopts.py["comparator"]].kind = "bytewise"

\* The implementations of a slot that are alive as such: the bridges made
\* for it, and the built-in it holds.
ActiveIn(sl) ==
    {w \in WrapperIds :
        /\ lwrap[w].alive
        /\ lwrap[w].slot = sl
        /\ lwrap[w].kind = "generic" \/ lopts.py[sl] = w}

SlotsConsistent ==
    \A sl \in Slots :
        /\ Cardinality(ActiveIn(sl)) <= 1
        /\ lopts.nat[sl] = lopts.py[sl]
        /\ lopts.py[sl] # 0 =>
              /\ lwrap[lopts.py[sl]].alive
              /\ lwrap[lopts.py[sl]].slot = sl
              /\ lwrap[lopts.py[sl]].native \in {"live", "static"}
        /\ lcall.op = None => lopts.py[sl] = 0

\* What a step does to the slots.
SlotStep ==
    /\ lcall'.op # "set" => lopts' = lopts
    /\ (lcall'.op = "set" /\ <<lopts, lwrap, lcall>>' # <<lopts, lwrap, lcall>>) =>
          /\ \A t \in Slots \ {lcall'.slot} :
                lopts'.py[t] = lopts.py[t] /\ lopts'.nat[t] = lopts.nat[t]
          /\ lcall'.result # "accepted" => lopts' = lopts
          /\ (lcall'.result = "accepted" /\ lcall'.kind = "none") =>
                Getter(lopts', lwrap', lcall'.slot) = 0
          /\ (lcall'.result = "accepted" /\ lcall'.kind # "none") =>
                \E w \in WrapperIds :
                    /\ lwrap[w].kind = "none"
                    /\ lwrap'[w].kind = lcall'.kind
                    /\ Getter(lopts', lwrap', lcall'.slot) = w
                    /\ lopts'.nat[lcall'.slot] = w

\* C18: every slot holds at most one active implementation and the native
\* options point to the implementation the slot holds; an accepted
\* assignment makes the getter return the assigned object and leaves the
\* other slots alone, a rejected one changes nothing, and nothing but an
\* assignment changes a slot, which holds its default until the first.
C18_SlotInvariant == []SlotsConsistent /\ [][SlotStep]_vars

\* An assignment was rejected for a slot that holds a bridge from an earlier,
\* accepted assignment.
C18_Witness ==
    /\ lcall.op = "set" /\ lcall.result = "TypeError"
    /\ lopts.py[lcall.slot] # 0
    /\ lwrap[lopts.py[lcall.slot]].kind = "generic"
    /\ \E w \in WrapperIds : lwrap[w].kind = "generic" /\ ~lwrap[w].alive

\* C19: while the DB is open, the native comparator and the native filter
\* policy its engine took from the Options at open exist.
C19_NativeOutlivesEngine ==
    ldb.state = "open" =>
        \A sl \in {"comparator", "filter_policy"} :
            ldb.eng[sl] # 0 => lwrap[ldb.eng[sl]].native \in {"live", "static"}

(***************************************************************************)
(* C20                                                                     *)
(***************************************************************************)

\* C20: while an iterator that was opened with read option snapshot = s has
\* its native traversal state, s has not been released to the engine.
C20_SnapshotPinnedByCursor ==
    \A j \in IteratorIds :
        (iters[j].state = "alive" /\ iters[j].snap # 0) =>
            snaps[iters[j].snap].state = "alive"

====
